---- MODULE Spec2Model ----
(***************************************************************************)
(* Model of the PDF slideshow generator (index.ts): the document assembler *)
(* createPdfSlideshow / addTitleSlide / addImageSlide / main as a state    *)
(* machine, and the layout arithmetic calculateImageSize / caption         *)
(* placement computed in IEEE-754 binary64 as JavaScript computes it.      *)
(***************************************************************************)
EXTENDS Integers, Sequences, FiniteSets, TLC

\* ---------------------------------------------------------------- bounds
MaxImages == 3
MaxDim == 13
MaxBox == 3

\* ------------------------------------------------------- program constants
MARGIN == 72
PAGE_WIDTH == 1920
PAGE_HEIGHT == 1080
captionHeight == 80

\* ------------------------------------------------------------------ state
VARIABLES
    config,      \* Data.SLIDESHOW: title, subtitle, images (possibly absent)
    pc,          \* position of main / createPdfSlideshow
    i,           \* loop index of createPdfSlideshow (0-based)
    visited,     \* history: the values of i for which the loop body ran
    pages,       \* doc: the pages of the PDFDocument, each the set of things drawn
    breaks,      \* history of doc.addPage calls: the index they followed (-1: title)
    log,         \* console output
    stream,      \* the write stream: "none", "open", "finished", "errored"
    listening,   \* finish/error listeners attached to the stream
    endCalls,    \* number of doc.end() calls
    result,      \* return value of createPdfSlideshow: "none", "true", "false"
    exitCode,    \* process exit code: -1 while running
    lay          \* layout harness: inputs and results of the geometry functions

avars == <<config, pc, i, visited, pages, breaks, log, stream, listening,
           endCalls, result, exitCode>>
vars == <<config, pc, i, visited, pages, breaks, log, stream, listening,
          endCalls, result, exitCode, lay>>

\* ------------------------------------------------------- the configuration
\* What happens to an entry of config.images when the loop reaches it:
\*   "undefined"   the entry itself is undefined
\*   "missing"     Fs.existsSync(src) is false
\*   "unreadable"  the file exists, getImageDimensions returns null
\*   "drawThrows"  dimensions are read, doc.image throws
\*   "ok"          the image is drawn
Statuses == {"undefined", "missing", "unreadable", "drawThrows", "ok"}

\* Types.ImageData: the src is identified with the entry's index; caption is
\* whether a non-empty caption is present (varied for drawable entries).
ImageData == [status : Statuses \ {"ok"}, caption : {FALSE}]
                \cup [status : {"ok"}, caption : BOOLEAN]

ImageLists == UNION {[1..n -> ImageData] : n \in 0..MaxImages}

\* Types.SlideshowConfig; hasImages = FALSE is Data.SLIDESHOW.images absent.
SlideshowConfig ==
    {c \in [title : {"", "T"}, subtitle : {"", "S"}, hasImages : BOOLEAN,
            images : ImageLists] : ~c.hasImages => c.images = <<>>}

NumImages == Len(config.images)

Entry(k) == config.images[k + 1]

\* ------------------------------------------------------------ doc helpers
Item(kind, idx) == [kind |-> kind, idx |-> idx]

Msg(level, what, idx) == [level |-> level, what |-> what, idx |-> idx]

\* drawing something on the current (last) page
Draw(pgs, items) == [pgs EXCEPT ![Len(pgs)] = @ \cup items]

\* doc.addPage()
AddPage(pgs) == Append(pgs, {})

\* addTitleSlide: the title, and the subtitle if it is non-empty
TitleItems(title, subtitle) ==
    {Item("title", -1)} \cup (IF subtitle # "" THEN {Item("subtitle", -1)} ELSE {})

\* what a successful addImageSlide draws for entry k
SlideItems(k) ==
    {Item("image", k)} \cup (IF Entry(k).caption THEN {Item("caption", k)} ELSE {})

\* a validation that only looks for an absent list
ConfigRejectedAbsentOnly(c) == ~c.hasImages

\* main's validation: !images || images.length === 0
ConfigRejected(c) == ~c.hasImages \/ Len(c.images) = 0

\* a page break after every image
NeedsPageBreakAlways(k, n) == k < n

\* "Add new page if not the last image"
NeedsPageBreak(k, n) == k < n - 1

\* a loop stepping over an entry
NextIndexSkip(k) == k + 2

\* the loop's i++
NextIndex(k) == k + 1

\* ------------------------------------------------- arbitrary-size naturals
\* JavaScript numbers are IEEE-754 binary64; their 53-bit significands and
\* the exact products and sums that are rounded to them exceed the model
\* checker's integers, so naturals are kept as sequences of limbs, most
\* significant first, without leading zero limbs (zero is <<>>).
Base == 2 ^ 13

\* a binary64 significand has 53 bits
SignificandBits == 53

RECURSIVE BigFromInt(_)
BigFromInt(n) == IF n = 0 THEN <<>> ELSE Append(BigFromInt(n \div Base), n % Base)

Front(x) == SubSeq(x, 1, Len(x) - 1)

Last(x) == x[Len(x)]

\* x * k + carry for a small k
RECURSIVE BigMulCarry(_, _, _)
BigMulCarry(x, k, carry) ==
    IF x = <<>> THEN BigFromInt(carry)
    ELSE LET t == Last(x) * k + carry
         IN  Append(BigMulCarry(Front(x), k, t \div Base), t % Base)

BigMulSmall(x, k) == BigMulCarry(x, k, 0)

\* quotient and remainder of x by a small d
RECURSIVE BigDivSmall(_, _)
BigDivSmall(x, d) ==
    IF x = <<>> THEN [q |-> <<>>, r |-> 0]
    ELSE LET p == BigDivSmall(Front(x), d)
             t == p.r * Base + Last(x)
         IN  [q |-> IF p.q = <<>> /\ t \div d = 0 THEN <<>> ELSE Append(p.q, t \div d),
              r |-> t % d]

RECURSIVE BigAddCarry(_, _, _)
BigAddCarry(x, y, carry) ==
    IF x = <<>> /\ y = <<>> THEN BigFromInt(carry)
    ELSE LET a == IF x = <<>> THEN 0 ELSE Last(x)
             b == IF y = <<>> THEN 0 ELSE Last(y)
             t == a + b + carry
         IN  Append(BigAddCarry(IF x = <<>> THEN x ELSE Front(x),
                                IF y = <<>> THEN y ELSE Front(y), t \div Base),
                    t % Base)

BigAdd(x, y) == BigAddCarry(x, y, 0)

\* -1, 0, 1 as x <, =, > y
RECURSIVE BigCmpFrom(_, _, _)
BigCmpFrom(x, y, j) ==
    IF j > Len(x) THEN 0
    ELSE IF x[j] < y[j] THEN -1
    ELSE IF x[j] > y[j] THEN 1
    ELSE BigCmpFrom(x, y, j + 1)

BigCmp(x, y) ==
    IF Len(x) < Len(y) THEN -1
    ELSE IF Len(x) > Len(y) THEN 1
    ELSE BigCmpFrom(x, y, 1)

RECURSIVE IntBitLen(_)
IntBitLen(n) == IF n = 0 THEN 0 ELSE 1 + IntBitLen(n \div 2)

LimbBits == IntBitLen(Base) - 1

\* x * 2^k
BigShl(x, k) ==
    IF x = <<>> THEN x
    ELSE BigMulSmall(x, 2 ^ (k % LimbBits)) \o [j \in 1..(k \div LimbBits) |-> 0]

BigBitLen(x) == IF x = <<>> THEN 0 ELSE LimbBits * (Len(x) - 1) + IntBitLen(x[1])

BigIsOdd(x) == x # <<>> /\ Last(x) % 2 = 1

\* ------------------------------------------------------ exact dyadic values
\* [m, e] is the number m * 2^e. A double is a dyadic whose m has exactly
\* SignificandBits bits (the values here are positive normal numbers).
Dy(m, e) == [m |-> m, e |-> e]

DyInt(n) == Dy(BigFromInt(n), 0)

DyMulInt(x, k) == Dy(BigMulSmall(x.m, k), x.e)

DyScale(x, k) == Dy(x.m, x.e + k)

MinInt(a, b) == IF a <= b THEN a ELSE b

DyAligned(x, e0) == BigShl(x.m, x.e - e0)

DyCmp(x, y) ==
    LET e0 == MinInt(x.e, y.e) IN BigCmp(DyAligned(x, e0), DyAligned(y, e0))

DyAdd(x, y) ==
    LET e0 == MinInt(x.e, y.e) IN Dy(BigAdd(DyAligned(x, e0), DyAligned(y, e0)), e0)

DyLeq(x, y) == DyCmp(x, y) <= 0

DyEq(x, y) == DyCmp(x, y) = 0

\* ------------------------------------------------------- binary64 rounding
\* Round m * 2^e (plus, if sticky, a positive amount below one unit of m) to
\* the nearest double, ties to even.
RoundToDouble(x, sticky) ==
    LET bl == BigBitLen(x.m)
    IN  IF bl <= SignificandBits
        THEN Dy(BigShl(x.m, SignificandBits - bl), x.e - (SignificandBits - bl))
        ELSE LET s    == bl - SignificandBits
                 d    == BigDivSmall(x.m, 2 ^ s)
                 half == 2 ^ (s - 1)
                 up   == \/ d.r > half
                         \/ d.r = half /\ (sticky \/ BigIsOdd(d.q))
                 m1   == IF up THEN BigAdd(d.q, <<1>>) ELSE d.q
             IN  IF BigBitLen(m1) > SignificandBits
                 THEN Dy(BigDivSmall(m1, 2).q, x.e + s + 1)
                 ELSE Dy(m1, x.e + s)

\* a / b for positive integers (exactly representable numbers) a, b
DDiv(a, b) ==
    LET k == SignificandBits + 1 - (IntBitLen(a) - IntBitLen(b))
        d == BigDivSmall(BigShl(BigFromInt(a), k), b)
    IN  RoundToDouble(Dy(d.q, -k), d.r # 0)

\* n * x for a positive integer n and a double x
DMulInt(n, x) == RoundToDouble(DyMulInt(x, n), FALSE)

\* n + x for a positive integer n and a double x
DAddInt(n, x) == RoundToDouble(DyAdd(DyInt(n), x), FALSE)

\* Math.min
DMin(x, y) == IF DyLeq(x, y) THEN x ELSE y

\* the double holding the integer n
DInt(n) == RoundToDouble(DyInt(n), FALSE)

\* ------------------------------------------------------------ layout engine
\* Math.max
DMax(x, y) == IF DyLeq(x, y) THEN y ELSE x

\* calculateImageSize scaling by the larger ratio
calculateImageSizeMax(originalWidth, originalHeight, maxWidth, maxHeight) ==
    LET scaleFactor == DMax(DDiv(maxWidth, originalWidth), DDiv(maxHeight, originalHeight))
    IN  [width  |-> DMulInt(originalWidth, scaleFactor),
         height |-> DMulInt(originalHeight, scaleFactor)]

calculateImageSize(originalWidth, originalHeight, maxWidth, maxHeight) ==
    LET widthRatio  == DDiv(maxWidth, originalWidth)
        heightRatio == DDiv(maxHeight, originalHeight)
        scaleFactor == DMin(widthRatio, heightRatio)
    IN  [width  |-> DMulInt(originalWidth, scaleFactor),
         height |-> DMulInt(originalHeight, scaleFactor)]


\* addImageSlide: the box the image is fitted into
availableWidth == PAGE_WIDTH - 2 * MARGIN

availableHeight == PAGE_HEIGHT - 2 * MARGIN - captionHeight

imageY == MARGIN

\* doc.image(src, x, y, {fit: [bw, bh], align: "center", valign: "center"}):
\* the writer scales the image to the largest size of its aspect ratio that
\* fits the box and centres it in the box. The vertical edges of the placed
\* image, as exact fractions top/den and bottom/den.
FitPlacement(w, h, y, bw, bh) ==
    LET wide == w * bh > h * bw
        hN   == IF wide THEN bw * h ELSE bh
        hD   == IF wide THEN w ELSE 1
    IN  [top    |-> 2 * y * hD + bh * hD - hN,
         bottom |-> 2 * y * hD + bh * hD + hN,
         den    |-> 2 * hD]

\* const captionY = imageY + imageSize.height + 30
CaptionY(imageSize) == DAddInt(30, DAddInt(imageY, imageSize.height))

DNone == Dy(<<>>, 0)

NoSize == [width |-> DNone, height |-> DNone]

NoPlacement == [top |-> 0, bottom |-> 0, den |-> 1]

\* natural pixel sizes of images
TypicalSizes == {<<1920, 1080>>, <<1080, 1920>>, <<3000, 1000>>, <<4032, 3024>>}

Dims == ((1..MaxDim) \X (1..MaxDim)) \cup TypicalSizes

Boxes == {<<availableWidth, availableHeight>>} \cup ((1..MaxBox) \X (1..MaxBox))

LayInputs ==
    {l \in [lpc : {"input"}, dims : Dims, box : Boxes, caption : BOOLEAN,
            imageSize : {NoSize}, placed : {NoPlacement}, captionY : {DNone}] :
        l.caption => l.box = <<availableWidth, availableHeight>>}

\* ------------------------------------------------------------------ Init
LayIdle == [lpc |-> "idle", dims |-> <<1, 1>>, box |-> <<1, 1>>, caption |-> FALSE,
            imageSize |-> NoSize, placed |-> NoPlacement, captionY |-> DNone]

Init ==
    /\ config \in SlideshowConfig
    /\ pc = "main"
    /\ i = 0
    /\ visited = <<>>
    /\ pages = <<>>
    /\ breaks = <<>>
    /\ log = <<>>
    /\ stream = "none"
    /\ listening = FALSE
    /\ endCalls = 0
    /\ result = "none"
    /\ exitCode = -1
    /\ lay = LayIdle

\* --------------------------------------------------------------- actions
\* main: empty or absent image list -> console.error, process.exit(1)
MainReject ==
    /\ pc = "main"
    /\ ConfigRejected(config)
    /\ log' = Append(log, Msg("error", "noImages", -1))
    /\ exitCode' = 1
    /\ pc' = "exited"
    /\ UNCHANGED <<config, i, visited, pages, breaks, stream, listening,
                   endCalls, result, lay>>

\* main: configuration accepted, createPdfSlideshow is called
MainAccept ==
    /\ pc = "main"
    /\ ~ConfigRejected(config)
    /\ pc' = "create"
    /\ UNCHANGED <<config, i, visited, pages, breaks, log, stream, listening,
                   endCalls, result, exitCode, lay>>

\* new PDFDocument (which opens its first page), createWriteStream, doc.pipe
CreateDocument ==
    /\ pc = "create"
    /\ pages' = <<{}>>
    /\ stream' = "open"
    /\ pc' = "title"
    /\ UNCHANGED <<config, i, visited, breaks, log, listening, endCalls,
                   result, exitCode, lay>>

\* if (config.title) { addTitleSlide(...); doc.addPage(); }
TitleSlide ==
    /\ pc = "title"
    /\ config.title # ""
    /\ pages' = AddPage(Draw(pages, TitleItems(config.title, config.subtitle)))
    /\ breaks' = Append(breaks, -1)
    /\ i' = 0
    /\ pc' = "loop"
    /\ UNCHANGED <<config, visited, log, stream, listening, endCalls, result,
                   exitCode, lay>>

NoTitleSlide ==
    /\ pc = "title"
    /\ config.title = ""
    /\ i' = 0
    /\ pc' = "loop"
    /\ UNCHANGED <<config, visited, pages, breaks, log, stream, listening,
                   endCalls, result, exitCode, lay>>

\* loop body, entry undefined: warn, continue
SkipUndefined ==
    /\ pc = "loop"
    /\ i < NumImages
    /\ Entry(i).status = "undefined"
    /\ log' = Append(log, Msg("warn", "undefined", i))
    /\ visited' = Append(visited, i)
    /\ i' = NextIndex(i)
    /\ UNCHANGED <<config, pc, pages, breaks, stream, listening, endCalls,
                   result, exitCode, lay>>

\* a loop that warns about the missing file but still takes the page break
SkipMissingWithBreak ==
    /\ pc = "loop"
    /\ i < NumImages
    /\ Entry(i).status = "missing"
    /\ log' = Append(log, Msg("warn", "notFound", i))
    /\ visited' = Append(visited, i)
    /\ pages' = IF NeedsPageBreak(i, NumImages) THEN AddPage(pages) ELSE pages
    /\ breaks' = IF NeedsPageBreak(i, NumImages) THEN Append(breaks, i) ELSE breaks
    /\ i' = NextIndex(i)
    /\ UNCHANGED <<config, pc, stream, listening, endCalls, result, exitCode, lay>>

\* loop body, file not found: warn, continue
SkipMissing ==
    /\ pc = "loop"
    /\ i < NumImages
    /\ Entry(i).status = "missing"
    /\ log' = Append(log, Msg("warn", "notFound", i))
    /\ visited' = Append(visited, i)
    /\ i' = NextIndex(i)
    /\ UNCHANGED <<config, pc, pages, breaks, stream, listening, endCalls,
                   result, exitCode, lay>>

\* loop body, file exists: addImageSlide is entered and suspends at
\* await getImageDimensions(...)
EnterImageSlide ==
    /\ pc = "loop"
    /\ i < NumImages
    /\ Entry(i).status \in {"unreadable", "drawThrows", "ok"}
    /\ visited' = Append(visited, i)
    /\ pc' = "measure"
    /\ UNCHANGED <<config, i, pages, breaks, log, stream, listening, endCalls,
                   result, exitCode, lay>>

\* the page break that follows addImageSlide in the loop
AfterSlide(pgs) ==
    /\ pages' = IF NeedsPageBreak(i, NumImages) THEN AddPage(pgs) ELSE pgs
    /\ breaks' = IF NeedsPageBreak(i, NumImages) THEN Append(breaks, i) ELSE breaks
    /\ i' = NextIndex(i)
    /\ pc' = "loop"

\* addImageSlide resumes: getImageDimensions returned null (it logged), the
\* throw is caught inside addImageSlide (logged); then the loop's page break
SlideUnreadable ==
    /\ pc = "measure"
    /\ Entry(i).status = "unreadable"
    /\ log' = log \o <<Msg("error", "readDimensions", i), Msg("error", "addSlide", i)>>
    /\ AfterSlide(pages)
    /\ UNCHANGED <<config, visited, stream, listening, endCalls, result,
                   exitCode, lay>>

\* addImageSlide resumes: doc.image throws, caught inside addImageSlide
SlideDrawThrows ==
    /\ pc = "measure"
    /\ Entry(i).status = "drawThrows"
    /\ log' = Append(log, Msg("error", "addSlide", i))
    /\ AfterSlide(pages)
    /\ UNCHANGED <<config, visited, stream, listening, endCalls, result,
                   exitCode, lay>>

\* addImageSlide resumes: image (and caption) drawn on the current page
SlideDrawn ==
    /\ pc = "measure"
    /\ Entry(i).status = "ok"
    /\ AfterSlide(Draw(pages, SlideItems(i)))
    /\ UNCHANGED <<config, visited, log, stream, listening, endCalls, result,
                   exitCode, lay>>

\* The write stream emits 'error' while createPdfSlideshow is suspended in the
\* loop: no listener is attached yet (they are attached after doc.end()), so
\* the event is an unhandled 'error' event: an uncaught exception ends the
\* process. createPdfSlideshow never returns and main logs nothing.
StreamErrorUnhandled ==
    /\ pc = "measure"
    /\ stream = "open"
    /\ ~listening
    /\ stream' = "errored"
    /\ exitCode' = 1
    /\ pc' = "crashed"
    /\ UNCHANGED <<config, i, visited, pages, breaks, log, listening, endCalls,
                   result, lay>>

\* loop finished: doc.end(); the promise attaches the finish/error listeners
DocEnd ==
    /\ pc = "loop"
    /\ ~(i < NumImages)
    /\ endCalls' = endCalls + 1
    /\ listening' = TRUE
    /\ pc' = "await"
    /\ UNCHANGED <<config, i, visited, pages, breaks, log, stream, result,
                   exitCode, lay>>

\* stream 'finish': resolve, log, return true
StreamFinish ==
    /\ pc = "await"
    /\ stream = "open"
    /\ listening
    /\ stream' = "finished"
    /\ log' = Append(log, Msg("log", "created", -1))
    /\ result' = "true"
    /\ pc' = "report"
    /\ UNCHANGED <<config, i, visited, pages, breaks, listening, endCalls,
                   exitCode, lay>>

\* stream 'error' with the listener attached: reject, catch, return false
StreamErrorHandled ==
    /\ pc = "await"
    /\ stream = "open"
    /\ listening
    /\ stream' = "errored"
    /\ log' = Append(log, Msg("error", "creatingPdf", -1))
    /\ result' = "false"
    /\ pc' = "report"
    /\ UNCHANGED <<config, i, visited, pages, breaks, listening, endCalls,
                   exitCode, lay>>

\* main after createPdfSlideshow: success summary (implicit exit 0)
MainSuccess ==
    /\ pc = "report"
    /\ result = "true"
    /\ log' = Append(log, Msg("log", "success", -1))
    /\ exitCode' = 0
    /\ pc' = "exited"
    /\ UNCHANGED <<config, i, visited, pages, breaks, stream, listening,
                   endCalls, result, lay>>

\* main after createPdfSlideshow: failure line, process.exit(1)
MainFailure ==
    /\ pc = "report"
    /\ result = "false"
    /\ log' = Append(log, Msg("log", "failed", -1))
    /\ exitCode' = 1
    /\ pc' = "exited"
    /\ UNCHANGED <<config, i, visited, pages, breaks, stream, listening,
                   endCalls, result, lay>>

Next ==
    \/ MainReject
    \/ MainAccept
    \/ CreateDocument
    \/ TitleSlide
    \/ NoTitleSlide
    \/ SkipUndefined
    \/ SkipMissing
    \/ EnterImageSlide
    \/ SlideUnreadable
    \/ SlideDrawThrows
    \/ SlideDrawn
    \/ StreamErrorUnhandled
    \/ DocEnd
    \/ StreamFinish
    \/ StreamErrorHandled
    \/ MainSuccess
    \/ MainFailure

Spec == Init /\ [][Next]_vars

\* The event loop runs every continuation that is ready, and the write stream
\* eventually signals finish or error.
FairSpec == Spec /\ WF_vars(Next)

\* ------------------------------------------------- the layout computations
\* The geometry functions applied to every input of LayInputs.
InitLayout ==
    /\ config = [title |-> "", subtitle |-> "", hasImages |-> FALSE, images |-> <<>>]
    /\ pc = "layout"
    /\ i = 0
    /\ visited = <<>>
    /\ pages = <<>>
    /\ breaks = <<>>
    /\ log = <<>>
    /\ stream = "none"
    /\ listening = FALSE
    /\ endCalls = 0
    /\ result = "none"
    /\ exitCode = -1
    /\ lay \in LayInputs

\* calculateImageSize(w, h, boxW, boxH)
CalculateImageSize ==
    /\ lay.lpc = "input"
    /\ ~lay.caption
    /\ lay' = [lay EXCEPT
                 !.lpc = "sized",
                 !.imageSize = calculateImageSize(lay.dims[1], lay.dims[2],
                                                  lay.box[1], lay.box[2])]
    /\ UNCHANGED avars

\* addImageSlide once the dimensions are known: the image is drawn by the
\* writer's fit primitive, its size is recomputed by calculateImageSize and
\* the caption, if any, is placed below that size
SlideGeometry ==
    /\ lay.lpc = "input"
    /\ lay.box = <<availableWidth, availableHeight>>
    /\ LET size == calculateImageSize(lay.dims[1], lay.dims[2],
                                      availableWidth, availableHeight)
       IN  lay' = [lay EXCEPT
                     !.lpc = "slide",
                     !.placed = FitPlacement(lay.dims[1], lay.dims[2], imageY,
                                             availableWidth, availableHeight),
                     !.imageSize = size,
                     !.captionY = IF lay.caption THEN CaptionY(size) ELSE DNone]
    /\ UNCHANGED avars

NextLayout ==
    \/ CalculateImageSize
    \/ SlideGeometry

SpecLayout == InitLayout /\ [][NextLayout]_vars

\* ------------------------------------------------- properties: assembler
Range(f) == {f[x] : x \in DOMAIN f}

Indices == 0..(NumImages - 1)

\* the configured image list is absent or empty
NoImages == ~config.hasImages \/ NumImages = 0

TitlePages == IF config.title # "" THEN 1 ELSE 0

CountMsgs(m) == Cardinality({j \in 1..Len(log) : log[j] = m})

Warnings == {j \in 1..Len(log) : log[j].level = "warn"}

\* the entry at index k has been dealt with by the loop
Processed(k) == k \in Range(visited) /\ ~(i = k /\ pc \in {"measure", "crashed"})

\* the 1-based number of the physical page image k was drawn on (0: not drawn)
PageOf(k) ==
    IF \E p \in 1..Len(pages) : Item("image", k) \in pages[p]
    THEN CHOOSE p \in 1..Len(pages) : Item("image", k) \in pages[p]
    ELSE 0

DrawnIndices == {k \in Indices : PageOf(k) # 0}

Finalized == endCalls = 1

AllReadable ==
    /\ NumImages >= 1
    /\ \A k \in Indices : Entry(k).status \in {"ok", "drawThrows"}

\* C1: when every entry is defined, its file exists and its dimensions are
\* readable, the finalized document has (1 if title else 0) + n physical
\* pages and no doc.addPage follows the last image.
C1_PageCount ==
    (Finalized /\ AllReadable) =>
        /\ Len(pages) = TitlePages + NumImages
        /\ (NumImages - 1) \notin Range(breaks)

C1_Witness ==
    /\ Finalized
    /\ AllReadable
    /\ NumImages >= 2
    /\ config.title # ""
    /\ Len(pages) = 1 + NumImages

\* C2 (as claimed): an entry whose dimensions cannot be read is logged as an
\* error once, the loop advances past it, and it consumes no page: no page
\* break is emitted for it.
C2_UnreadableConsumesNoPage ==
    \A k \in Indices :
        (Entry(k).status = "unreadable" /\ Processed(k)) =>
            /\ CountMsgs(Msg("error", "addSlide", k)) = 1
            /\ i > k
            /\ k \notin Range(breaks)

\* C3: an entry whose file does not exist gets exactly one warning naming it,
\* no draw command and no page break, and the loop moves on; three images
\* with only index 1 missing give two image pages (after the title page, if
\* any) and exactly one warning.
C3_MissingFileSkipped ==
    /\ \A k \in Indices :
          Entry(k).status = "missing" =>
              /\ CountMsgs(Msg("warn", "notFound", k))
                    = (IF k \in Range(visited) THEN 1 ELSE 0)
              /\ \A p \in 1..Len(pages) : \A it \in pages[p] : it.idx # k
              /\ k \notin Range(breaks)
              /\ (k \in Range(visited) => i > k)
    /\ ( /\ Finalized
         /\ NumImages = 3
         /\ Entry(0).status = "ok"
         /\ Entry(1).status = "missing"
         /\ Entry(2).status = "ok" )
       => /\ Len(pages) = TitlePages + 2
          /\ PageOf(0) = TitlePages + 1
          /\ PageOf(2) = TitlePages + 2
          /\ Cardinality(Warnings) = 1
          /\ CountMsgs(Msg("warn", "notFound", 1)) = 1

C3_Witness ==
    /\ Finalized
    /\ NumImages = 3
    /\ Entry(0).status = "ok"
    /\ Entry(1).status = "missing"
    /\ Entry(2).status = "ok"
    /\ config.title # ""
    /\ Len(pages) = 3
    /\ Cardinality(Warnings) = 1

\* C4: with an absent or empty image list the run reports the error and
\* exits non-zero before any file I/O: no write stream, no document.
C4_EmptyRejected ==
    NoImages =>
        /\ stream = "none"
        /\ pages = <<>>
        /\ endCalls = 0
        /\ result = "none"
        /\ pc \in {"main", "exited"}
        /\ pc = "exited" =>
              /\ exitCode = 1
              /\ CountMsgs(Msg("error", "noImages", -1)) = 1

C4_Witness ==
    /\ config.hasImages
    /\ config.images = <<>>
    /\ pc = "exited"
    /\ exitCode = 1
    /\ stream = "none"

\* the loop has visited 0, 1, 2, ... in order, each once
VisitedInOrder ==
    /\ Len(visited) <= NumImages
    /\ \A j \in 1..Len(visited) : visited[j] = j - 1

C5_Safety ==
    /\ VisitedInOrder
    /\ endCalls <= 1
    /\ Finalized => Len(visited) = NumImages
    /\ (pc = "exited" /\ ~NoImages) => Finalized

\* C5: per-image failures never abort the run: the loop visits every index
\* 0..n-1 once, in increasing order, and doc.end() is then called exactly
\* once; the only other way out of the loop is the death of the process on
\* a write-stream error, which is not a per-image failure.
C5_PerImageFailuresContained ==
    /\ []C5_Safety
    /\ (pc = "title") ~> (Finalized \/ pc = "crashed")

C5_Witness ==
    /\ Finalized
    /\ NumImages = 3
    /\ visited = <<0, 1, 2>>
    /\ Entry(0).status = "unreadable"
    /\ Entry(1).status = "drawThrows"
    /\ Entry(2).status = "missing"

\* C6 (as claimed): whenever the write stream has emitted an error,
\* createPdfSlideshow returns false and main logs the failure and exits
\* non-zero; true is returned only after the stream signalled finish.
C6_StreamFailureReported ==
    /\ (stream = "errored" /\ pc \in {"exited", "crashed"}) =>
          /\ result = "false"
          /\ CountMsgs(Msg("log", "failed", -1)) = 1
          /\ exitCode = 1
    /\ result = "true" => stream = "finished"

CountBreaks(b) == Cardinality({j \in 1..Len(breaks) : breaks[j] = b})

LastDrawn == CHOOSE k \in DrawnIndices : \A j \in DrawnIndices : j <= k

\* C7 (as claimed): when the last list entry is skipped (undefined or file
\* missing) and an earlier entry is drawn, no page break follows the last
\* drawn image, so the document does not end with a blank page.
C7_NoTrailingBreak ==
    ( /\ Finalized
      /\ NumImages >= 2
      /\ Entry(NumImages - 1).status \in {"undefined", "missing"}
      /\ DrawnIndices # {} )
    => /\ LastDrawn \notin Range(breaks)
       /\ pages[Len(pages)] # {}

FirstDrawn == CHOOSE k \in DrawnIndices : \A j \in DrawnIndices : k <= j

TitleDone == pc \notin {"main", "create", "title"} /\ ~NoImages

\* C8 (as claimed): with a non-empty title the title (and the subtitle iff
\* non-empty) is on the first page, followed by exactly one page break
\* before any image; with an empty title nothing is drawn and no page break
\* is emitted before the loop, so the first drawn image is on the first page.
C8_TitlePage ==
    TitleDone =>
        /\ config.title # "" =>
              /\ pages[1] = TitleItems(config.title, config.subtitle)
              /\ (Item("subtitle", -1) \in pages[1]) <=> (config.subtitle # "")
              /\ breaks[1] = -1
              /\ CountBreaks(-1) = 1
              /\ \A k \in DrawnIndices : PageOf(k) >= 2
        /\ config.title = "" =>
              /\ \A p \in 1..Len(pages) : \A it \in pages[p] : it.idx # -1
              /\ -1 \notin Range(breaks)
              /\ DrawnIndices # {} => PageOf(FirstDrawn) = 1

\* --------------------------------------------------- properties: layout
Sized == lay.lpc \in {"sized", "slide"}

\* x <= y * (1 + 2^-51): equal up to the rounding of two binary64 operations
WithinRounding(x, y) == DyLeq(x, DyAdd(y, DyScale(y, -51)))

NearlyEqual(x, y) == WithinRounding(x, y) /\ WithinRounding(y, x)

\* C9 (as claimed): the result fits the box on both axes, has exactly the
\* aspect ratio of the original (w' * h = h' * w) and equals the box on at
\* least one axis.
C9_ExactFit ==
    Sized =>
        LET W == lay.imageSize.width
            H == lay.imageSize.height
        IN  /\ DyLeq(W, DyInt(lay.box[1]))
            /\ DyLeq(H, DyInt(lay.box[2]))
            /\ DyEq(DyMulInt(W, lay.dims[2]), DyMulInt(H, lay.dims[1]))
            /\ (DyEq(W, DyInt(lay.box[1])) \/ DyEq(H, DyInt(lay.box[2])))

\* C9 (amended): the same four relations hold up to binary64 rounding, that
\* is within a relative tolerance of 2^-51.
C9_FitWithinRounding ==
    Sized =>
        LET W == lay.imageSize.width
            H == lay.imageSize.height
        IN  /\ WithinRounding(W, DyInt(lay.box[1]))
            /\ WithinRounding(H, DyInt(lay.box[2]))
            /\ NearlyEqual(DyMulInt(W, lay.dims[2]), DyMulInt(H, lay.dims[1]))
            /\ \/ NearlyEqual(W, DyInt(lay.box[1]))
               \/ NearlyEqual(H, DyInt(lay.box[2]))

\* an image whose computed width exceeds the box width by rounding
C9_Witness ==
    /\ lay.lpc = "sized"
    /\ lay.dims = <<11, 1>>
    /\ lay.box = <<availableWidth, availableHeight>>
    /\ ~DyLeq(lay.imageSize.width, DyInt(availableWidth))
    /\ WithinRounding(lay.imageSize.width, DyInt(availableWidth))

\* C10 (as claimed): the caption's top y (MARGIN + computed fit height + 30)
\* is at or below the bottom edge of the image as the writer placed it.
C10_CaptionBelowImage ==
    (lay.lpc = "slide" /\ lay.caption) =>
        DyLeq(DyInt(lay.placed.bottom), DyMulInt(lay.captionY, lay.placed.den))

====
